---- MODULE Spec2Model ----
(***************************************************************************)
(* WpDaemon: the supervisor of one WireProxy child process.                *)
(*                                                                         *)
(* The model follows the C++ sources: StateMachine (state_machine.cpp),    *)
(* LogManager (log_manager.cpp), WireProxyProcess with its log monitoring  *)
(* thread (wireproxy_process.cpp), CommandHandler (command_handler.cpp),   *)
(* ConfigManager (config_manager.cpp) and the signal handler of main.cpp.  *)
(*                                                                         *)
(* Threads: the connection workers, which run CommandHandler::execute      *)
(* under its mutex (pc = "idle" iff the mutex is free); the monitoring     *)
(* thread of the WireProxyProcess (wd); the child processes (procs); and   *)
(* the signal handler of the supervisor.  A handler is cut into steps only *)
(* where it sleeps or blocks (sleep_for, join, waitpid, a mutex).          *)
(***************************************************************************)
EXTENDS Integers, Sequences, FiniteSets, TLC

\* ---------------------------------------------------------------- bounds
MaxSessions == 2        \* children forked in one behaviour of Spec
MaxClock == 1           \* wall-clock seconds 0..MaxClock
MaxLines == 5           \* lines a child writes to one log under Spec
WdMaxLines == 6         \* lines a child writes to one log under SpecW
NConns == 2             \* connection workers

\* ------------------------------------------------------ program constants
ERROR_THRESHOLD == 5    \* monitor_log_for_network_errors
PollLimit == 50         \* terminate(): for (int i = 0; i < 50; ++i)
NoPid == -1             \* pid_ of a WireProxyProcess without a child

\* ------------------------------------------------------------ option type
None == <<>>
Some(x) == <<x>>

\* --------------------------------------------------------------- strings
\* A name is the sequence of its characters.
Conf == <<".", "c", "o", "n", "f">>
NameA == <<"a">>
NameNx == <<"n", "x">>
Names == {NameA, NameA \o Conf, NameNx}
\* The *.conf files of the configs directory (the environment).
ConfigFiles == {NameA \o Conf}

EndsWithConf(n) == Len(n) >= 5 /\ SubSeq(n, Len(n) - 4, Len(n)) = Conf

\* A variant of normalize_config_name that appends the suffix to every name.
normalize_append(n) == n \o Conf

\* ConfigManager::normalize_config_name
normalize_config_name(n) == IF EndsWithConf(n) THEN n ELSE n \o Conf

\* ConfigManager::config_exists
config_exists(n) == normalize_config_name(n) \in ConfigFiles

\* ConfigManager::list_configs (one file: sorted as it stands)
list_configs == <<NameA \o Conf>>

\* create_log: the file name's stem, .conf removed
config_clean(n) == IF EndsWithConf(n) THEN SubSeq(n, 1, Len(n) - 5) ELSE n

\* create_log: logs_dir_ / (to_string(timestamp) + "_" + config_clean + ".log")
LogPath(t, n) == <<t, config_clean(n)>>
Paths == {LogPath(t, n) : t \in 0..MaxClock, n \in ConfigFiles}

\* ----------------------------------------------------------- StateMachine
States == {"IDLE", "STARTING", "RUNNING", "STOPPING"}

\* A variant of is_valid_transition with a seventh row, Stopping -> Running.
is_valid_transition_restart(from, to) ==
    CASE from = "IDLE" -> to = "STARTING"
      [] from = "STARTING" -> to = "RUNNING" \/ to = "IDLE"
      [] from = "RUNNING" -> to = "STOPPING" \/ to = "IDLE"
      [] from = "STOPPING" -> to = "IDLE" \/ to = "RUNNING"
      [] OTHER -> FALSE

\* A variant of is_valid_transition without the rows Starting -> Idle and
\* Stopping -> Idle.
is_valid_transition_noreturn(from, to) ==
    CASE from = "IDLE" -> to = "STARTING"
      [] from = "STARTING" -> to = "RUNNING"
      [] from = "RUNNING" -> to = "STOPPING" \/ to = "IDLE"
      [] OTHER -> FALSE

\* StateMachine::is_valid_transition
is_valid_transition(from, to) ==
    CASE from = "IDLE" -> to = "STARTING"
      [] from = "STARTING" -> to = "RUNNING" \/ to = "IDLE"
      [] from = "RUNNING" -> to = "STOPPING" \/ to = "IDLE"
      [] from = "STOPPING" -> to = "IDLE"
      [] OTHER -> FALSE

\* StateMachine::transition_to: the returned flag and the stored state
transition_to(cur, new) ==
    IF is_valid_transition(cur, new)
    THEN [ok |-> TRUE, st |-> new]
    ELSE [ok |-> FALSE, st |-> cur]

\* ------------------------------------------------------------- log lines
\* What the monitoring thread distinguishes in a line of child output:
\*   "match"  matches 'network is unreachable' or 'can't assign requested address'
\*   "errpre" no match, starts with 'ERROR:'
\*   "errmid" no match, holds 'ERROR:' after its start
\*   "other"  no match and no 'ERROR:'
LineClasses == {"match", "errpre", "errmid", "other"}
IsMatch(l) == l = "match"
HasERROR(l) == l \in {"errpre", "errmid"}

\* ------------------------------------------------------------- variables
VARIABLES
    state,              \* StateMachine::current_state_
    process,            \* CommandHandler::process_ (NoProc: nullptr)
    current_config,     \* CommandHandler::current_config_ (<<>>: empty)
    log_file,           \* LogManager::log_file_ (None: nullptr), the path of the open FILE
    current_log_path,   \* LogManager::current_log_path_ (None: empty path)
    files,              \* the log directory: path -> "absent", "open" (header, handle
                        \* open), "final" (footer, closed), "cut" (closed, no footer),
                        \* "twice" (a second footer after the first)
    footer,             \* Shutdown Method in the footer of the newest log (None: no footer)
    lines,              \* what the child of process_ wrote after the header of its log
    logOwner,           \* pid of the child that writes to that log (0: none)
    clock,              \* system_clock, in seconds
    procs,              \* the children: pid -> status
    nextPid,            \* the pid the next fork returns
    sent,               \* the kill() calls since the last fork: <<pid, signal, stray>>
    wd,                 \* the monitoring thread of process_
    pc,                 \* where the command under the mutex stands ("idle": mutex free)
    holder,             \* the worker that holds CommandHandler::mutex_ (0: none)
    cmd,                \* the command it executes
    local,              \* locals of the handler and of terminate()
    reply,              \* the reply execute() returned, until the next command starts
    lastUp,             \* pid of the last spin_up reply with status "running", until the
                        \* command after the next state or spin_down reply starts (0: none)
    net,                \* the worker of the connection that is followed: TCPServer::
                        \* process_client, and what went over the connection
    supExit,            \* the supervisor process has exited
    env,                \* the environment the supervisor was started in
    sm                  \* threads that call StateMachine::transition_to by themselves:
                        \* the holder of StateMachine::mutex_ and each thread's call

logv == <<log_file, current_log_path, files, footer, lines, logOwner, clock>>
osv == <<procs, nextPid, sent>>
thr == <<pc, holder, cmd, local>>
disp == <<state, process, current_config>>
vars == <<state, process, current_config, log_file, current_log_path, files, footer,
          lines, logOwner, clock, procs, nextPid, sent, wd, pc, holder, cmd, local, reply,
          lastUp, net, supExit, env, sm>>

NoProc == [pid |-> NoPid, terminated |-> FALSE, stop |-> FALSE, drop |-> FALSE, exists |-> FALSE]
NoWd == [pc |-> "none", start |-> 0, pos |-> 0, cnt |-> 0]
NoLocal == [i |-> 0, method |-> "", cont |-> "", norm |-> <<>>, log_path |-> None,
            prev_config |-> <<>>, failed_log |-> None]
NoCmd == [name |-> "", arg |-> <<>>]
NoReply == [CMD |-> "", result |-> <<>>, error |-> <<>>]
\* no thread is in transition_to, StateMachine::mutex_ is free
Threads == 1..2
NoCall == [pc |-> "out", to |-> "IDLE", cur |-> "IDLE", ok |-> FALSE, calls |-> 0]
NoSm == [mutex |-> 0, th |-> [t \in Threads |-> NoCall]]
\* the worker waits in recv(); nothing was received or written
NoNet == [wk |-> "recv", line |-> <<>>, resp |-> NoReply, reads |-> 0, nls |-> 0,
          wrote |-> 0, aborted |-> FALSE]

Pids == 1..MaxSessions
Conns == 1..NConns
LiveSt == {"forked", "alive", "termed", "killed"}
\* the statuses of a child that is in the process group of its own pid: "forked" is
\* the child between fork() and its setpgid(0, 0), still in the supervisor's group
InGroup == {"alive", "termed", "killed", "zombie"}

\* ----------------------------------------------------------------- Init
\* the state after construction, in the environment e
Started(e) ==
    /\ state = "IDLE"
    /\ process = NoProc
    /\ current_config = <<>>
    /\ log_file = None
    /\ current_log_path = None
    /\ files = [p \in Paths |-> "absent"]
    /\ footer = None
    /\ lines = <<>>
    /\ logOwner = 0
    /\ clock = 0
    /\ procs = [p \in Pids |-> "none"]
    /\ nextPid = 1
    /\ sent = {}
    /\ wd = NoWd
    /\ pc = "idle"
    /\ holder = 0
    /\ cmd = NoCmd
    /\ local = NoLocal
    /\ reply = NoReply
    /\ lastUp = 0
    /\ net = NoNet
    /\ supExit = FALSE
    /\ env = e
    /\ sm = NoSm

\* the daemon started by a user whose HOME is set
Init == Started([HOME |-> Some("/home/user"), USERPROFILE |-> None])

\* ------------------------------------------------------------ directories
\* A path is the sequence of its components.
\* std::filesystem::temp_directory_path()
TempDir == "/tmp"

\* utils.hpp expand_tilde
expand_tilde(path, e) ==
    IF path = <<>> \/ path[1] # "~" THEN path
    ELSE IF e.HOME = None THEN path
    ELSE <<e.HOME[1]>> \o Tail(path)

\* utils.hpp get_argus_dir
get_argus_dir(e) == expand_tilde(<<"~", ".argus">>, e)

\* LogManager::LogManager: logs_dir_
logs_dir(e) == get_argus_dir(e) \o <<"wp-server-logs">>

\* create_log: the file of the session log, logs_dir_ / file name
LogFile(e, clp) == logs_dir(e) \o <<clp[1]>>

\* AuditLogger::AuditLogger: logs_dir_
audit_logs_dir(e) ==
    LET home == IF e.HOME # None THEN e.HOME ELSE e.USERPROFILE IN
    IF home # None THEN <<home[1], ".argus", "wp-server-logs">>
    ELSE <<TempDir, "wp-server-logs">>

\* ------------------------------------------------------------ LogManager
\* LogManager::create_log at second t; ok: fopen succeeded.  An open log_file_
\* is closed as it stands (no footer), then the path is set and the file opened
\* for writing (truncated) and the header written.
create_log(lf, fs, t, name, ok) ==
    LET fs1 == IF lf # None THEN [fs EXCEPT ![lf[1]] = "cut"] ELSE fs
        path == LogPath(t, name)
    IN IF ok
       THEN [log_file |-> Some(path), current_log_path |-> Some(path),
             files |-> [fs1 EXCEPT ![path] = "open"],
             threw |-> FALSE]
       ELSE [log_file |-> None, current_log_path |-> Some(path), files |-> fs1,
             threw |-> TRUE]

\* LogManager::get_log_handle: throws without an open log
get_log_handle(lf) ==
    IF lf = None THEN [threw |-> TRUE, handle |-> None]
    ELSE [threw |-> FALSE, handle |-> lf]

\* the fprintf calls of finalize on a file: the footer after what the file holds
WriteFooter(status) == IF status \in {"final", "twice"} THEN "twice" ELSE "final"

\* A variant of finalize that leaves log_file_ as it is after the fclose.
finalize_keeps_handle(lf, fs, ft, shutdown_method) ==
    IF lf = None
    THEN [log_file |-> lf, files |-> fs, footer |-> ft]
    ELSE [log_file |-> lf, files |-> [fs EXCEPT ![lf[1]] = WriteFooter(@)],
          footer |-> Some(shutdown_method)]

\* LogManager::finalize: nothing without an open log; else the footer with the
\* shutdown method, fclose and log_file_ = nullptr.  current_log_path_ is left as
\* it is.
finalize(lf, fs, ft, shutdown_method) ==
    IF lf = None
    THEN [log_file |-> lf, files |-> fs, footer |-> ft]
    ELSE [log_file |-> None, files |-> [fs EXCEPT ![lf[1]] = WriteFooter(@)],
          footer |-> Some(shutdown_method)]

\* LogManager::get_current_log_path: the member as it stands
get_current_log_path(clp) == clp

\* LogManager::is_log_open
is_log_open(lf) == lf # None

\* ------------------------------------------------------ kill and waitpid
\* kill(-pid, sig): what becomes of the children
Kill(ps, pid, sig) ==
    IF pid \in DOMAIN ps /\ ps[pid] \in {"alive", "termed"}
    THEN [ps EXCEPT ![pid] = IF sig = "SIGKILL" THEN "killed" ELSE "termed"]
    ELSE ps

\* the record of a kill(-pid, sig): stray when no such child is left to signal
Signal(ps, pid, sig) == <<pid, sig, ~(pid \in DOMAIN ps /\ ps[pid] \in InGroup)>>

\* A variant of waitpid(WNOHANG) that takes a signalled child for an ended one
\* and reaps it.
WaitNoHangEager(ps, pid) ==
    CASE ps[pid] = "alive" -> [res |-> 0, procs |-> ps]
      [] ps[pid] \in {"termed", "killed", "zombie"} ->
             [res |-> pid, procs |-> [ps EXCEPT ![pid] = "reaped"]]
      [] OTHER -> [res |-> -1, procs |-> ps]

\* waitpid(pid, &status, WNOHANG): 0 while the child runs, pid when it reaps the
\* zombie, -1 (ECHILD) when there is no such child any more
WaitNoHang(ps, pid) ==
    CASE ps[pid] \in LiveSt -> [res |-> 0, procs |-> ps]
      [] ps[pid] = "zombie" -> [res |-> pid, procs |-> [ps EXCEPT ![pid] = "reaped"]]
      [] OTHER -> [res |-> -1, procs |-> ps]

\* A variant of is_alive that looks at pid_ only and never asks waitpid.
is_alive_nowait(ps, p) == [alive |-> p.pid # NoPid, procs |-> ps]

\* WireProxyProcess::is_alive
is_alive(ps, p) ==
    IF p.pid = NoPid
    THEN [alive |-> FALSE, procs |-> ps]
    ELSE LET w == WaitNoHang(ps, p.pid)
         IN [alive |-> w.res = 0, procs |-> w.procs]

\* ---------------------------------------------------------------- replies
Reply(c, res, err) == [CMD |-> c, result |-> res, error |-> err]

\* the pid the last spin_up reply with status "running" gave
UpPid(r, before) ==
    IF r.CMD = "spin_up" /\ r.result # None THEN r.result[1].pid ELSE before

\* on_recv_ returns in process_client: the worker that called has its response
Handed(n, r) == IF n.wk = "call" THEN [n EXCEPT !.wk = "write", !.resp = r, !.line = <<>>]
                ELSE n

\* execute() returns: the reply is handed to the worker and mutex_ released
Return(r) ==
    /\ reply' = r
    /\ net' = Handed(net, r)
    /\ lastUp' = UpPid(r, lastUp)
    /\ pc' = "idle"
    /\ holder' = 0
    /\ cmd' = NoCmd
    /\ local' = NoLocal

\* the monitoring thread has ended or was never started: join() returns
Joined == wd.pc \in {"none", "done"}

\* ------------------------------------------------------- CommandHandler
\* a lock that is granted whoever holds it
mutex_free_always == TRUE

\* std::lock_guard on mutex_: granted when no execute() is under way
mutex_free == pc = "idle"

\* execute(): a worker takes mutex_ with a parsed command line
Begin(c, k, maxSess) ==
    /\ ~supExit
    /\ mutex_free
    /\ (k.name = "spin_up" /\ state = "IDLE" /\ k.arg # <<>> /\ config_exists(k.arg))
         => nextPid <= maxSess
    /\ pc' = "exec"
    /\ holder' = c
    /\ cmd' = k
    /\ local' = NoLocal
    /\ reply' = NoReply
    /\ lastUp' = IF reply.CMD \in {"state", "spin_down"} THEN 0 ELSE lastUp
    /\ UNCHANGED <<disp, logv, osv, wd, net, supExit, env, sm>>

\* a state check that lets every spin_up through
already_running_never(st) == FALSE

\* handle_spin_up: state_machine_.get_state() != State::IDLE
already_running(st) == st # "IDLE"

\* handle_spin_up up to the 500 ms sleep; the clock reads at most maxT.  When
\* spawn() returns the child is born: "alive" when it has already run its
\* setpgid(0, 0), "forked" when it has not.
SpinUpAs(maxT, born) ==
    /\ ~supExit
    /\ pc = "exec"
    /\ cmd.name = "spin_up"
    /\ LET norm == normalize_config_name(cmd.arg) IN
       IF cmd.arg = <<>>
       THEN /\ Return(Reply("spin_up", None,
                            Some(<<"Not enough args: spin_up requires config name">>)))
            /\ UNCHANGED <<disp, logv, osv, wd, supExit, env, sm>>
       ELSE IF already_running(state)
       THEN /\ Return(Reply("spin_up", None,
                     Some(IF current_config # <<>>
                          THEN <<"WireProxy is already running with config: ", current_config>>
                          ELSE <<"WireProxy is already running">>)))
            /\ UNCHANGED <<disp, logv, osv, wd, supExit, env, sm>>
       ELSE IF ~config_exists(norm)
       THEN /\ Return(Reply("spin_up", None, Some(<<"Configuration not found: ", norm>>)))
            /\ UNCHANGED <<disp, logv, osv, wd, supExit, env, sm>>
       ELSE IF ~transition_to(state, "STARTING").ok
       THEN /\ Return(Reply("spin_up", None,
                            Some(<<"Failed to transition to STARTING state">>)))
            /\ UNCHANGED <<disp, logv, osv, wd, supExit, env, sm>>
       ELSE \E t \in clock..maxT, fopenOk \in BOOLEAN, forkOk \in BOOLEAN :
            LET starting == transition_to(state, "STARTING").st
                cl == create_log(log_file, files, t, norm, fopenOk)
                fin == finalize(cl.log_file, cl.files, None, "Spawn failed")
            IN /\ clock' = t
               /\ current_log_path' = cl.current_log_path
               /\ IF cl.threw
                  THEN \* catch: no log is open; process_ is still nullptr
                       /\ log_file' = cl.log_file
                       /\ files' = cl.files
                       /\ state' = transition_to(starting, "IDLE").st
                       /\ current_config' = <<>>
                       /\ Return(Reply("spin_up", None,
                                 Some(<<"Exception during spin_up: Failed to create log file: ",
                                        cl.current_log_path[1]>>)))
                       /\ UNCHANGED <<process, footer, lines, logOwner, osv, wd, supExit, env, sm>>
                  ELSE IF ~forkOk
                  THEN \* spawn() returned false: fork failed
                       /\ log_file' = fin.log_file
                       /\ files' = fin.files
                       /\ footer' = fin.footer
                       /\ state' = transition_to(starting, "IDLE").st
                       /\ Return(Reply("spin_up", None,
                                       Some(<<"Failed to spawn WireProxy process">>)))
                       /\ UNCHANGED <<process, current_config, lines, logOwner, osv, wd,
                                      supExit, env, sm>>
                  ELSE \* the child runs; the monitoring thread is started
                       /\ log_file' = cl.log_file
                       /\ files' = cl.files
                       /\ footer' = None
                       /\ lines' = <<>>
                       /\ logOwner' = nextPid
                       /\ state' = starting
                       /\ process' = [pid |-> nextPid, terminated |-> FALSE, stop |-> FALSE,
                                      drop |-> FALSE, exists |-> TRUE]
                       /\ procs' = [procs EXCEPT ![nextPid] = born]
                       /\ nextPid' = nextPid + 1
                       /\ sent' = {}
                       /\ wd' = [NoWd EXCEPT !.pc = "sleep"]
                       /\ pc' = "su_sleep"
                       /\ local' = [NoLocal EXCEPT !.norm = norm,
                                                   !.log_path = cl.current_log_path]
                       /\ UNCHANGED <<current_config, holder, cmd, reply, net, lastUp, supExit, env, sm>>

\* handle_spin_up with a child that is scheduled at once: in its own group when
\* fork() returns in the supervisor
SpinUp(maxT) == SpinUpAs(maxT, "alive")

ExecSpinUp == SpinUp(MaxClock)

\* A destructor that goes to join() without raising the flag.
DtorStartNoFlag(p) == p

\* ~WireProxyProcess, first half: stop_monitoring_ = true, then join()
DtorStart(p) == [p EXCEPT !.stop = TRUE]

\* handle_spin_up after the sleep: the is_alive probe
SpinUpProbe ==
    /\ ~supExit
    /\ pc = "su_sleep"
    /\ LET w == is_alive(procs, process)
           fin == finalize(log_file, files, footer, "Process died during startup")
       IN IF w.alive
          THEN /\ current_config' = local.norm
               /\ state' = transition_to(state, "RUNNING").st
               /\ Return(Reply("spin_up",
                               Some([status |-> "running", config |-> local.norm,
                                     pid |-> process.pid, log_file |-> local.log_path]),
                               None))
               /\ UNCHANGED <<process, logv, osv, wd, supExit, env, sm>>
          ELSE /\ procs' = w.procs
               /\ log_file' = fin.log_file
               /\ files' = fin.files
               /\ footer' = fin.footer
               /\ process' = DtorStart(process)
               /\ pc' = "dtor_join"
               /\ local' = [local EXCEPT !.cont = "spin_up",
                                         !.failed_log = current_log_path]
               /\ UNCHANGED <<state, current_config, current_log_path, lines, logOwner,
                              clock, nextPid, sent, wd, holder, cmd, reply, net, lastUp, supExit, env, sm>>

\* handle_state from the State read on: the reply from what is left
StateReply(st, p, cfg, clp) ==
    IF st = "RUNNING" /\ p.exists
    THEN Reply("state", Some([running |-> TRUE, config |-> Some(cfg), pid |-> Some(p.pid),
                              log_file |-> clp]), None)
    ELSE Reply("state", Some([running |-> FALSE, config |-> None, pid |-> None,
                              log_file |-> clp]), None)

\* A variant of ProcessGone for a handler that forgets process_.reset().
ProcessKept ==
    /\ wd' = NoWd
    /\ lines' = <<>>
    /\ logOwner' = 0
    /\ UNCHANGED process

\* process_.reset() is done: the WireProxyProcess, its thread and its view of the
\* log are gone
ProcessGone ==
    /\ process' = NoProc
    /\ wd' = NoWd
    /\ lines' = <<>>
    /\ logOwner' = 0

\* A variant of SpinUpDiedTail that forgets the transition to IDLE.
SpinUpDiedTailStuck ==
    /\ ProcessGone
    /\ current_config' = <<>>
    /\ Return(Reply("spin_up", None,
                    Some(<<"WireProxy failed to start. Check log: ", local.failed_log>>)))
    /\ UNCHANGED <<state, log_file, current_log_path, files, footer, clock>>

\* The rest of a handler once process_.reset() has destroyed the WireProxyProcess.
\* spin_up, child dead at the probe: transition to IDLE, the error reply.
SpinUpDiedTail ==
    /\ ProcessGone
    /\ state' = transition_to(state, "IDLE").st
    /\ current_config' = <<>>
    /\ Return(Reply("spin_up", None,
                    Some(<<"WireProxy failed to start. Check log: ", local.failed_log>>)))
    /\ UNCHANGED <<log_file, current_log_path, files, footer, clock>>

\* handle_spin_up, catch block after process_.reset(): transition to IDLE, the
\* error reply with e.what()
SpinUpCatchTail ==
    /\ ProcessGone
    /\ state' = transition_to(state, "IDLE").st
    /\ current_config' = <<>>
    /\ Return(Reply("spin_up", None, Some(<<"Exception during spin_up: ", "what">>)))
    /\ UNCHANGED <<log_file, current_log_path, files, footer, clock>>

\* A variant of SpinDownCatchTail that forgets the transition to IDLE.
SpinDownCatchTailStuck ==
    /\ ProcessGone
    /\ current_config' = <<>>
    /\ Return(Reply("spin_down", None, Some(<<"Failed to stop WireProxy: ", "what">>)))
    /\ UNCHANGED <<state, log_file, current_log_path, files, footer, clock>>

\* handle_spin_down, catch block after process_.reset(): the configuration is
\* cleared, transition to IDLE, the error reply with e.what().  No finalize.
SpinDownCatchTail ==
    /\ ProcessGone
    /\ current_config' = <<>>
    /\ state' = transition_to(state, "IDLE").st
    /\ Return(Reply("spin_down", None, Some(<<"Failed to stop WireProxy: ", "what">>)))
    /\ UNCHANGED <<log_file, current_log_path, files, footer, clock>>

\* check_and_cleanup_process after process_.reset(), and the reply of handle_state
StateCleanupTail ==
    /\ ProcessGone
    /\ current_config' = <<>>
    /\ state' = transition_to(state, "IDLE").st
    /\ Return(StateReply(transition_to(state, "IDLE").st, NoProc, <<>>, current_log_path))
    /\ UNCHANGED <<log_file, current_log_path, files, footer, clock>>

\* handle_spin_down after terminate() has returned the shutdown method; st is the
\* state after the transition to STOPPING
SpinDownTail(st, method, prev_config, log_path) ==
    LET fin == finalize(log_file, files, footer, method)
    IN /\ log_file' = fin.log_file
       /\ files' = fin.files
       /\ footer' = fin.footer
       /\ ProcessGone
       /\ current_config' = <<>>
       /\ state' = transition_to(st, "IDLE").st
       /\ Return(Reply("spin_down",
                       Some([status |-> "stopped", previous_config |-> prev_config,
                             log_file |-> log_path]),
                       None))
       /\ UNCHANGED <<current_log_path, clock>>

\* terminate(): pid_ == -1 || terminated_
terminate_not_running(p) == p.pid = NoPid \/ p.terminated

\* WireProxyProcess::terminate up to its first sleep: SIGTERM to the group
TerminateStart(loc) ==
    /\ sent' = sent \cup {Signal(procs, process.pid, "SIGTERM")}
    /\ procs' = Kill(procs, process.pid, "SIGTERM")
    /\ pc' = "term_poll"
    /\ local' = [loc EXCEPT !.i = 0]

\* ~WireProxyProcess, second half: the monitoring thread is joined; terminate()
\* unless pid_ == -1 or terminated_
DtorJoin ==
    /\ ~supExit
    /\ pc = "dtor_join"
    /\ Joined
    /\ IF process.pid # NoPid /\ ~process.terminated
       THEN /\ TerminateStart(local)
            /\ UNCHANGED <<disp, logv, nextPid, wd, holder, cmd, reply, net, lastUp, supExit, env, sm>>
       ELSE /\ IF local.cont = "spin_up" THEN SpinUpDiedTail ELSE StateCleanupTail
            /\ UNCHANGED <<osv, supExit, env, sm>>

\* terminate(): one round of the polling loop (sleep 100 ms, waitpid WNOHANG); after
\* the last round without result == pid_, SIGKILL to the group.  When waitpid fails
\* (no such child) every further round fails alike: they are taken in one step.
TermPoll ==
    /\ ~supExit
    /\ pc = "term_poll"
    /\ local.i < PollLimit
    /\ LET w == WaitNoHang(procs, process.pid)
           i1 == IF w.res = -1 THEN PollLimit ELSE local.i + 1
       IN IF w.res = process.pid
          THEN \* terminated_gracefully; cleanup() begins: stop_monitoring_ = true
               /\ procs' = w.procs
               /\ local' = [local EXCEPT !.i = i1, !.method = "Graceful termination"]
               /\ process' = [process EXCEPT !.stop = TRUE]
               /\ pc' = "term_join"
               /\ UNCHANGED <<state, current_config, logv, nextPid, sent, wd, holder, cmd,
                              reply, net, lastUp, supExit, env, sm>>
          ELSE IF i1 < PollLimit
          THEN /\ local' = [local EXCEPT !.i = i1]
               /\ UNCHANGED <<disp, logv, osv, wd, pc, holder, cmd, reply, net, lastUp, supExit, env, sm>>
          ELSE /\ local' = [local EXCEPT !.i = i1]
               /\ sent' = sent \cup {Signal(procs, process.pid, "SIGKILL")}
               /\ procs' = Kill(procs, process.pid, "SIGKILL")
               /\ pc' = "term_wait"
               /\ UNCHANGED <<disp, logv, nextPid, wd, holder, cmd, reply, net, lastUp, supExit, env, sm>>

\* A variant of TermWait whose waitpid has WNOHANG: it returns while the child
\* still runs.
TermWaitNoHang ==
    /\ ~supExit
    /\ pc = "term_wait"
    /\ procs' = [procs EXCEPT ![process.pid] = IF @ = "zombie" THEN "reaped" ELSE @]
    /\ local' = [local EXCEPT !.method = "Force killed"]
    /\ process' = [process EXCEPT !.stop = TRUE]
    /\ pc' = "term_join"
    /\ UNCHANGED <<state, current_config, logv, nextPid, sent, wd, holder, cmd, reply, net,
                   lastUp, supExit, env, sm>>

\* terminate(): waitpid(pid_, &status, 0) after SIGKILL returns once the child is
\* a zombie (reaped here) or no such child exists; cleanup() begins
TermWait ==
    /\ ~supExit
    /\ pc = "term_wait"
    /\ procs[process.pid] \notin LiveSt
    /\ procs' = [procs EXCEPT ![process.pid] = IF @ = "zombie" THEN "reaped" ELSE @]
    /\ local' = [local EXCEPT !.method = "Force killed"]
    /\ process' = [process EXCEPT !.stop = TRUE]
    /\ pc' = "term_join"
    /\ UNCHANGED <<state, current_config, logv, nextPid, sent, wd, holder, cmd, reply, net,
                   lastUp, supExit, env, sm>>

\* A variant of cleanup() that leaves terminated_ and pid_ as they are.
CleanupForgets ==
    /\ pc' = "idle"
    /\ local' = [NoLocal EXCEPT !.method = local.method]
    /\ UNCHANGED <<disp, logv, wd, holder, cmd, reply, net, lastUp>>

\* cleanup() after join(), in a terminate() that was called on the object itself:
\* terminated_ = true, pid_ = -1; the method is returned and the object lives on
CleanupReturn ==
    /\ process' = [process EXCEPT !.terminated = TRUE, !.pid = NoPid]
    /\ pc' = "idle"
    /\ local' = [NoLocal EXCEPT !.method = local.method]
    /\ UNCHANGED <<state, current_config, logv, wd, holder, cmd, reply, net, lastUp>>

\* cleanup() after join(): terminated_ = true, pid_ = -1; terminate() returns the
\* method to handle_spin_down, or to the destructor, whose caller goes on
TermJoin ==
    /\ ~supExit
    /\ pc = "term_join"
    /\ Joined
    /\ CASE local.cont = "spin_down" ->
              SpinDownTail(state, local.method, local.prev_config, local.log_path)
         [] local.cont = "spin_up" -> SpinUpDiedTail
         [] local.cont = "spin_up_catch" -> SpinUpCatchTail
         [] local.cont = "spin_down_catch" -> SpinDownCatchTail
         [] local.cont = "terminate" -> CleanupReturn
         [] OTHER -> StateCleanupTail
    /\ UNCHANGED <<osv, supExit, env, sm>>

\* A variant of not_running for a handler without the check.
not_running_unchecked(st, p) == FALSE

\* handle_spin_down: the check of the current state
not_running(st, p) == st # "RUNNING" \/ ~p.exists

\* handle_spin_down up to the first sleep of terminate()
ExecSpinDown ==
    /\ ~supExit
    /\ pc = "exec"
    /\ cmd.name = "spin_down"
    /\ IF not_running(state, process)
       THEN /\ Return(Reply("spin_down", None, Some(<<"WireProxy is not running">>)))
            /\ UNCHANGED <<disp, logv, osv, wd, supExit, env, sm>>
       ELSE IF ~transition_to(state, "STOPPING").ok
       THEN /\ Return(Reply("spin_down", None,
                            Some(<<"Failed to transition to STOPPING state">>)))
            /\ UNCHANGED <<disp, logv, osv, wd, supExit, env, sm>>
       ELSE IF terminate_not_running(process)
       THEN \* terminate() returns "Not running" at once
            /\ SpinDownTail(transition_to(state, "STOPPING").st, "Not running",
                            current_config, current_log_path)
            /\ UNCHANGED <<osv, supExit, env, sm>>
       ELSE /\ state' = transition_to(state, "STOPPING").st
            /\ TerminateStart([local EXCEPT !.cont = "spin_down",
                                            !.prev_config = current_config,
                                            !.log_path = current_log_path])
            /\ UNCHANGED <<process, current_config, logv, nextPid, wd, holder, cmd, reply, net,
                           lastUp, supExit, env, sm>>

\* ---------------------------------------------- exceptions in the handlers
\* handle_spin_up with an exception in its try block other than create_log's:
\* before the log is created (early), or from the std::thread constructor at the
\* end of spawn(), when the log is open and the child forked.  The catch block:
\* finalize if a log is open, process_.reset() (whose destructor calls
\* terminate(): pid_ is set), up to the first sleep of terminate().
SpinUpThrows(maxT) ==
    /\ ~supExit
    /\ pc = "exec"
    /\ cmd.name = "spin_up"
    /\ cmd.arg # <<>>
    /\ state = "IDLE"
    /\ config_exists(normalize_config_name(cmd.arg))
    /\ LET norm == normalize_config_name(cmd.arg)
           starting == transition_to(state, "STARTING").st
       IN \/ \* early: process_ is nullptr; a log is open only if one was left open
             LET fin == finalize(log_file, files, footer, "Error during startup")
             IN /\ log_file' = fin.log_file
                /\ files' = fin.files
                /\ footer' = fin.footer
                /\ state' = transition_to(starting, "IDLE").st
                /\ current_config' = <<>>
                /\ Return(Reply("spin_up", None,
                                Some(<<"Exception during spin_up: ", "what">>)))
                /\ UNCHANGED <<process, current_log_path, lines, logOwner, clock, osv,
                               wd, supExit, env, sm>>
          \/ \* the thread cannot be started
             \E t \in clock..maxT :
             LET cl == create_log(log_file, files, t, norm, TRUE)
                 fin == finalize(cl.log_file, cl.files, None, "Error during startup")
                 forked == [procs EXCEPT ![nextPid] = "alive"]
             IN /\ clock' = t
                /\ current_log_path' = cl.current_log_path
                /\ log_file' = fin.log_file
                /\ files' = fin.files
                /\ footer' = fin.footer
                /\ lines' = <<>>
                /\ logOwner' = nextPid
                /\ state' = starting
                /\ process' = [pid |-> nextPid, terminated |-> FALSE, stop |-> TRUE,
                               drop |-> FALSE, exists |-> TRUE]
                /\ nextPid' = nextPid + 1
                /\ sent' = {Signal(forked, nextPid, "SIGTERM")}
                /\ procs' = Kill(forked, nextPid, "SIGTERM")
                /\ wd' = NoWd
                /\ pc' = "term_poll"
                /\ local' = [NoLocal EXCEPT !.cont = "spin_up_catch", !.norm = norm,
                                            !.log_path = cl.current_log_path]
                /\ UNCHANGED <<current_config, holder, cmd, reply, net, lastUp, supExit, env, sm>>

\* handle_spin_down with an exception out of terminate() before its first signal:
\* the state is STOPPING; the catch block's process_.reset() up to the join of
\* the destructor
SpinDownThrows ==
    /\ ~supExit
    /\ pc = "exec"
    /\ cmd.name = "spin_down"
    /\ ~not_running(state, process)
    /\ transition_to(state, "STOPPING").ok
    /\ state' = transition_to(state, "STOPPING").st
    /\ process' = DtorStart(process)
    /\ pc' = "dtor_join"
    /\ local' = [local EXCEPT !.cont = "spin_down_catch"]
    /\ UNCHANGED <<current_config, logv, osv, wd, holder, cmd, reply, net, lastUp, supExit, env, sm>>

\* handle_spin_down with an exception out of finalize(), after terminate() has
\* returned: the catch block
TermJoinThrows ==
    /\ ~supExit
    /\ pc = "term_join"
    /\ Joined
    /\ local.cont = "spin_down"
    /\ SpinDownCatchTail
    /\ UNCHANGED <<osv, supExit, env, sm>>

\* handle_state: check_and_cleanup_process up to has_network_drop(), or the reply
ExecState ==
    /\ ~supExit
    /\ pc = "exec"
    /\ cmd.name = "state"
    /\ LET w == is_alive(procs, process)
       IN IF state = "RUNNING" /\ process.exists /\ ~w.alive
          THEN /\ procs' = w.procs
               /\ pc' = "st_drop"
               /\ UNCHANGED <<disp, logv, nextPid, sent, wd, holder, cmd, local, reply, net,
                              lastUp, supExit, env, sm>>
          ELSE /\ Return(StateReply(state, process, current_config, current_log_path))
               /\ UNCHANGED <<disp, logv, osv, wd, supExit, env, sm>>

\* A variant of termination_reason that never asks has_network_drop().
termination_reason_unasked(p) == "Process died unexpectedly"

\* check_and_cleanup_process: the reason for the footer
termination_reason(p) ==
    IF p.drop THEN "Network drop detected - auto-terminated" ELSE "Process died unexpectedly"

\* check_and_cleanup_process, child dead: has_network_drop() (under monitor_mutex_),
\* finalize with the reason, process_.reset() up to the join
StDrop ==
    /\ ~supExit
    /\ pc = "st_drop"
    /\ wd.pc # "trip"
    /\ LET fin == finalize(log_file, files, footer, termination_reason(process))
       IN /\ log_file' = fin.log_file
          /\ files' = fin.files
          /\ footer' = fin.footer
          /\ process' = DtorStart(process)
          /\ pc' = "dtor_join"
          /\ local' = [local EXCEPT !.cont = "state"]
          /\ UNCHANGED <<state, current_config, current_log_path, lines, logOwner, clock,
                         osv, wd, holder, cmd, reply, net, lastUp, supExit, env, sm>>

\* handle_whoami: the reply
whoami_reply == Reply("whoami", Some([version |-> "WPDAEMON_VERSION",
                                      implementation |-> "C++"]), None)

\* handle_whoami
ExecWhoami ==
    /\ ~supExit
    /\ pc = "exec"
    /\ cmd.name = "whoami"
    /\ Return(whoami_reply)
    /\ UNCHANGED <<disp, logv, osv, wd, supExit, env, sm>>

\* handle_available_confs
ExecAvailableConfs ==
    /\ ~supExit
    /\ pc = "exec"
    /\ cmd.name = "available_confs"
    /\ Return(Reply("available_confs", Some([count |-> Len(list_configs),
                                             configs |-> list_configs]), None))
    /\ UNCHANGED <<disp, logv, osv, wd, supExit, env, sm>>

\* ------------------------------------- monitor_log_for_network_errors
\* after the 500 ms sleep: the log is opened by its path and read from its end
WdWake ==
    /\ ~supExit
    /\ wd.pc = "sleep"
    /\ wd' = IF current_log_path = None
             THEN [wd EXCEPT !.pc = "done"]
             ELSE [wd EXCEPT !.pc = "tail", !.start = Len(lines), !.pos = Len(lines),
                             !.cnt = 0]
    /\ UNCHANGED <<disp, logv, osv, thr, reply, net, lastUp, supExit, env, sm>>

\* while (!stop_monitoring_): the loop ends once the flag is seen
WdStop ==
    /\ ~supExit
    /\ wd.pc = "tail"
    /\ process.stop
    /\ wd' = [wd EXCEPT !.pc = "done"]
    /\ UNCHANGED <<disp, logv, osv, thr, reply, net, lastUp, supExit, env, sm>>

\* A variant of CountLine in which every line without a match resets.
CountLineStrict(cnt, line) == IF IsMatch(line) THEN cnt + 1 ELSE 0

\* A variant of CountLine in which no line resets.
CountLineNoReset(cnt, line) == IF IsMatch(line) THEN cnt + 1 ELSE cnt

\* the counter after a line
CountLine(cnt, line) ==
    IF IsMatch(line) THEN cnt + 1
    ELSE IF ~HasERROR(line) THEN 0
    ELSE cnt

\* getline gives a line: it is counted; at the threshold the thread goes for
\* monitor_mutex_.  (Without a line: clear(), sleep 100 ms.)
WdGetline ==
    /\ ~supExit
    /\ wd.pc = "tail"
    /\ ~process.stop
    /\ wd.pos < Len(lines)
    /\ LET line == lines[wd.pos + 1]
           cnt1 == CountLine(wd.cnt, line)
       IN wd' = [wd EXCEPT !.pos = @ + 1, !.cnt = cnt1,
                           !.pc = IF IsMatch(line) /\ cnt1 >= ERROR_THRESHOLD
                                  THEN "lock" ELSE "tail"]
    /\ UNCHANGED <<disp, logv, osv, thr, reply, net, lastUp, supExit, env, sm>>

\* A variant of WdLock against a destructor and a cleanup() that hold
\* monitor_mutex_ while they wait in join().
WdLockJoinHeld ==
    /\ ~supExit
    /\ wd.pc = "lock"
    /\ pc \notin {"dtor_join", "term_join"}
    /\ wd' = [wd EXCEPT !.pc = "trip"]
    /\ process' = [process EXCEPT !.drop = TRUE]
    /\ UNCHANGED <<state, current_config, logv, osv, thr, reply, net, lastUp, supExit, env, sm>>

\* at the threshold: monitor_mutex_ is taken (has_network_drop() holds it only
\* within a step) and network_drop_detected_ set
WdLock ==
    /\ ~supExit
    /\ wd.pc = "lock"
    /\ wd' = [wd EXCEPT !.pc = "trip"]
    /\ process' = [process EXCEPT !.drop = TRUE]
    /\ UNCHANGED <<state, current_config, logv, osv, thr, reply, net, lastUp, supExit, env, sm>>

\* at the threshold, under monitor_mutex_: SIGTERM to the group, and the thread ends
WdSignal ==
    /\ ~supExit
    /\ wd.pc = "trip"
    /\ IF process.pid # NoPid /\ ~process.terminated
       THEN /\ sent' = sent \cup {Signal(procs, process.pid, "SIGTERM")}
            /\ procs' = Kill(procs, process.pid, "SIGTERM")
       ELSE UNCHANGED <<sent, procs>>
    /\ wd' = [wd EXCEPT !.pc = "done"]
    /\ UNCHANGED <<disp, logv, nextPid, thr, reply, net, lastUp, supExit, env, sm>>

\* ------------------------------------------------------------ the child
\* the child writes a line to its standard output or error: the log it inherited
ChildWrite(p, line, cap) ==
    /\ procs[p] \in {"alive", "termed"}
    /\ logOwner = p
    /\ Len(lines) < cap
    /\ lines' = Append(lines, line)
    /\ UNCHANGED <<disp, log_file, current_log_path, files, footer, logOwner, clock, osv,
                   wd, thr, reply, net, lastUp, supExit, env, sm>>

\* the child exits: on its own, on SIGTERM or on SIGKILL.  It stays a zombie until
\* the supervisor waits for it; without a supervisor init reaps it.
ChildExit(p) ==
    /\ procs[p] \in LiveSt
    /\ procs' = [procs EXCEPT ![p] = IF supExit THEN "reaped" ELSE "zombie"]
    /\ UNCHANGED <<disp, logv, nextPid, sent, wd, thr, reply, net, lastUp, supExit, env, sm>>

\* the child's first statement after fork(): setpgid(0, 0)
ChildSetpgid(p) ==
    /\ procs[p] = "forked"
    /\ procs' = [procs EXCEPT ![p] = "alive"]
    /\ UNCHANGED <<disp, logv, nextPid, sent, wd, thr, reply, net, lastUp, supExit, env, sm>>

\* ----------------------------------------- a WireProxyProcess by itself
\* WireProxyProcess::WireProxyProcess: pid_ = -1, terminated_ = false, no thread
Construct ==
    /\ ~supExit
    /\ pc = "idle"
    /\ ~process.exists
    /\ process' = [NoProc EXCEPT !.exists = TRUE]
    /\ UNCHANGED <<state, current_config, logv, osv, wd, thr, reply, net, lastUp, supExit,
                   env, sm>>

\* create_log and spawn() on the object while pid_ == -1: fork, the flags are set
\* back, the monitoring thread is started
Spawn(maxSess, maxT) ==
    /\ ~supExit
    /\ pc = "idle"
    /\ process.exists /\ process.pid = NoPid
    /\ nextPid <= maxSess
    /\ \E t \in clock..maxT :
         LET cl == create_log(log_file, files, t, NameA \o Conf, TRUE) IN
         /\ clock' = t
         /\ log_file' = cl.log_file
         /\ files' = cl.files
         /\ current_log_path' = cl.current_log_path
    /\ footer' = None
    /\ lines' = <<>>
    /\ logOwner' = nextPid
    /\ process' = [pid |-> nextPid, terminated |-> FALSE, stop |-> FALSE, drop |-> FALSE,
                   exists |-> TRUE]
    /\ procs' = [procs EXCEPT ![nextPid] = "alive"]
    /\ nextPid' = nextPid + 1
    /\ wd' = [NoWd EXCEPT !.pc = "sleep"]
    /\ local' = NoLocal
    /\ UNCHANGED <<state, current_config, sent, pc, holder, cmd, reply, net, lastUp,
                   supExit, env, sm>>

\* terminate() called on the object: "Not running" at once, or up to the first
\* sleep of the polling
Terminate ==
    /\ ~supExit
    /\ pc = "idle"
    /\ process.exists
    /\ IF terminate_not_running(process)
       THEN /\ local' = [NoLocal EXCEPT !.method = "Not running"]
            /\ UNCHANGED <<disp, logv, osv, wd, pc, holder, cmd, reply, net, lastUp,
                           supExit, env, sm>>
       ELSE /\ TerminateStart([NoLocal EXCEPT !.cont = "terminate"])
            /\ UNCHANGED <<disp, logv, nextPid, wd, holder, cmd, reply, net, lastUp,
                           supExit, env, sm>>

\* ------------------------------------------------ a LogManager by itself
\* The calls made on a LogManager while no command runs and no WireProxyProcess
\* exists; cmd holds the last call and reply what it returned or threw.
\* create_log(config_name, version) at a second up to maxT
LogCreate(maxT, names) ==
    /\ ~supExit
    /\ pc = "idle"
    /\ ~process.exists
    /\ \E t \in clock..maxT, n \in names, fopenOk \in BOOLEAN :
         LET cl == create_log(log_file, files, t, n, fopenOk) IN
         /\ clock' = t
         /\ log_file' = cl.log_file
         /\ files' = cl.files
         /\ current_log_path' = cl.current_log_path
         /\ footer' = IF cl.threw THEN footer ELSE None
         /\ cmd' = [name |-> "create_log", arg |-> n]
         /\ reply' = IF cl.threw
                     THEN Reply("create_log", None,
                                Some(<<"Failed to create log file: ", cl.current_log_path[1]>>))
                     ELSE Reply("create_log", cl.current_log_path, None)
    /\ UNCHANGED <<disp, lines, logOwner, osv, wd, pc, holder, local, lastUp, net, supExit,
                   env, sm>>

\* finalize(shutdown_method)
LogFinalize(shutdown_method) ==
    /\ ~supExit
    /\ pc = "idle"
    /\ ~process.exists
    /\ LET fin == finalize(log_file, files, footer, shutdown_method) IN
       /\ log_file' = fin.log_file
       /\ files' = fin.files
       /\ footer' = fin.footer
    /\ cmd' = [name |-> "finalize", arg |-> <<shutdown_method>>]
    /\ reply' = Reply("finalize", None, None)
    /\ UNCHANGED <<disp, current_log_path, lines, logOwner, clock, osv, wd, pc, holder,
                   local, lastUp, net, supExit, env, sm>>

\* get_log_handle()
LogHandle ==
    /\ ~supExit
    /\ pc = "idle"
    /\ ~process.exists
    /\ LET h == get_log_handle(log_file) IN
       reply' = IF h.threw
                THEN Reply("get_log_handle", None, Some(<<"No log file is currently open">>))
                ELSE Reply("get_log_handle", h.handle, None)
    /\ cmd' = [name |-> "get_log_handle", arg |-> <<>>]
    /\ UNCHANGED <<disp, logv, osv, wd, pc, holder, local, lastUp, net, supExit, env, sm>>

\* --------------------------------------------------------- StateMachine
\* a lock that is granted whoever holds it
sm_lock_always(m) == TRUE

\* transition_to: std::lock_guard on StateMachine::mutex_
sm_lock_free(m) == m = 0

\* transition_to(new_state) called by thread t: the lock is taken
SmLock(t, new_state, maxCalls) ==
    /\ sm.th[t].pc = "out"
    /\ sm.th[t].calls < maxCalls
    /\ sm_lock_free(sm.mutex)
    /\ sm' = [sm EXCEPT !.mutex = t,
                        !.th[t] = [@ EXCEPT !.pc = "locked", !.to = new_state,
                                            !.calls = @ + 1]]
    /\ UNCHANGED <<disp, logv, osv, wd, thr, reply, lastUp, net, supExit, env>>

\* transition_to: State current = current_state_.load()
SmLoad(t) ==
    /\ sm.th[t].pc = "locked"
    /\ sm' = [sm EXCEPT !.th[t] = [@ EXCEPT !.pc = "loaded", !.cur = state]]
    /\ UNCHANGED <<disp, logv, osv, wd, thr, reply, lastUp, net, supExit, env>>

\* transition_to: is_valid_transition(current, new_state), the store, the return
\* with the lock released
SmStore(t) ==
    /\ sm.th[t].pc = "loaded"
    /\ LET r == transition_to(sm.th[t].cur, sm.th[t].to) IN
       /\ state' = IF r.ok THEN r.st ELSE state
       /\ sm' = [sm EXCEPT !.mutex = 0,
                           !.th[t] = [@ EXCEPT !.pc = "out", !.ok = r.ok]]
    /\ UNCHANGED <<process, current_config, logv, osv, wd, thr, reply, lastUp, net,
                   supExit, env>>

\* ------------------------------------------------------- signal_handler
\* SIGINT or SIGTERM to the supervisor: g_server->stop(), exit(0).  exit() closes
\* the open FILE streams; no destructor of run_daemon_mode's objects runs, so no
\* terminate() and no finalize().  What was the supervisor's memory is gone: its
\* variables are set back; the log directory and the children remain.
ProcessEnds ==
    /\ supExit' = TRUE
    /\ files' = IF log_file # None THEN [files EXCEPT ![log_file[1]] = "cut"] ELSE files
    /\ procs' = [p \in Pids |-> IF procs[p] = "zombie" THEN "reaped" ELSE procs[p]]
    /\ state' = "IDLE"
    /\ process' = NoProc
    /\ current_config' = <<>>
    /\ log_file' = None
    /\ current_log_path' = None
    /\ lines' = <<>>
    /\ logOwner' = 0
    /\ clock' = 0
    /\ nextPid' = 1
    /\ sent' = {}
    /\ wd' = NoWd
    /\ pc' = "idle"
    /\ holder' = 0
    /\ cmd' = NoCmd
    /\ local' = NoLocal
    /\ reply' = NoReply
    /\ lastUp' = 0
    /\ UNCHANGED <<footer, env, sm>>

Shutdown ==
    /\ ~supExit
    /\ ProcessEnds
    /\ UNCHANGED net

\* ------------------------------------------------------------ TCPServer
\* What travels on the connection is a sequence of tokens: a word stands for its
\* bytes, LF for the newline, Colon for ':', Utf8Bad for a byte 0xFF, which no
\* UTF-8 text contains.
LF == "LF"
Colon == ":"
Comma == ","
Blank == " "
Utf8Bad == "xFF"

\* std::string::find: the first position of t in s, 0 for npos
find(s, t) ==
    IF \E i \in 1..Len(s) : s[i] = t
    THEN CHOOSE i \in 1..Len(s) : s[i] = t /\ \A j \in 1..(i - 1) : s[j] # t
    ELSE 0

\* the number of newlines in what one recv() returned
Newlines(data) == Cardinality({i \in 1..Len(data) : data[i] = LF})

\* TCPServer::parse_command: the text up to the first newline, newline included
parse_command(data) ==
    LET newline_pos == find(data, LF) IN
    IF newline_pos = 0
    THEN [command |-> <<>>, success |-> FALSE]
    ELSE [command |-> SubSeq(data, 1, newline_pos), success |-> TRUE]

\* the bytes of an argument word
Letters(w) == IF w = "nx" THEN NameNx ELSE <<w>>

\* the bytes of a field of words
RECURSIVE Bytes(_)
Bytes(f) == IF f = <<>> THEN <<>> ELSE Letters(Head(f)) \o Bytes(Tail(f))

\* execute(): std::getline(ss, arg, ',') until the stream ends
RECURSIVE Split(_)
Split(str) ==
    IF str = <<>> THEN <<>>
    ELSE LET c == find(str, Comma) IN
         IF c = 0 THEN <<str>>
         ELSE <<SubSeq(str, 1, c - 1)>> \o Split(SubSeq(str, c + 1, Len(str)))

\* a field taken as it stands, blanks included
TrimNone(f) == f

\* execute(): erase up to find_first_not_of(" \t") and from find_last_not_of + 1
Trim(f) ==
    LET keep == {i \in 1..Len(f) : f[i] # Blank} IN
    IF keep = {} THEN <<>>
    ELSE SubSeq(f, CHOOSE i \in keep : \A j \in keep : i <= j,
                   CHOOSE i \in keep : \A j \in keep : i >= j)

\* execute(): the fields of args_str, trimmed, the empty ones discarded
Args(args_str) ==
    LET fields == Split(args_str)
        trimmed == [i \in 1..Len(fields) |-> Trim(fields[i])]
    IN SelectSeq(trimmed, LAMBDA f : f # <<>>)

\* execute(): cmd is the text before the first colon, args the fields of the text
\* after it without the trailing newline; a handler gets args[0]
ParseLine(command) ==
    LET colon_pos == find(command, Colon)
        rest == SubSeq(command, colon_pos + 1, Len(command))
        args_str == IF rest # <<>> /\ rest[Len(rest)] = LF
                    THEN SubSeq(rest, 1, Len(rest) - 1)
                    ELSE rest
        name == SubSeq(command, 1, colon_pos - 1)
        args == Args(args_str)
    IN [name |-> IF name = <<>> THEN "" ELSE name[1],
        arg |-> IF args = <<>> THEN <<>> ELSE Bytes(args[1])]

\* process_client: the reply to data without a newline, with a result that is
\* the empty string where the code has null
framing_error_empty == Reply("unknown", Some(""), Some(<<"Newline not found">>))

\* process_client: the reply to data without a newline
framing_error == Reply("unknown", None, Some(<<"Newline not found">>))

\* execute(): the reply to a line without a colon
colon_error == Reply("unknown", None, Some(<<"Parsing error: colon not found">>))

\* nlohmann::json::dump() with its default arguments (strict error handler)
\* throws type_error 316 when a string of the document is not valid UTF-8
dump_throws(r) ==
    \/ r.CMD = Utf8Bad
    \/ /\ r.error # None
       /\ r.error[1][1] = "Configuration not found: "
       /\ \E i \in 1..Len(r.error[1][2]) : r.error[1][2][i] = Utf8Bad

\* the dispatcher's command names
KnownCommands == {"spin_up", "spin_down", "state", "available_confs", "whoami"}

\* process_client: recv() returns data; parse_command
Recv(reads, maxReads) ==
    /\ ~supExit
    /\ net.wk = "recv"
    /\ net.reads < maxReads
    /\ \E data \in reads :
         LET parsed == parse_command(data)
             got == [net EXCEPT !.reads = @ + 1, !.nls = @ + Newlines(data)]
         IN net' = IF ~parsed.success
                   THEN [got EXCEPT !.wk = "write", !.resp = framing_error]
                   ELSE [got EXCEPT !.wk = "call", !.line = parsed.command]
    /\ UNCHANGED <<disp, logv, osv, wd, thr, reply, lastUp, supExit, env, sm>>

\* on_recv_(command) with a line that has no colon: execute() replies at once
ExecuteNoColon ==
    /\ ~supExit
    /\ net.wk = "call"
    /\ mutex_free
    /\ find(net.line, Colon) = 0
    /\ Return(colon_error)
    /\ UNCHANGED <<disp, logv, osv, wd, supExit, env, sm>>

\* on_recv_(command): execute() parses the line and dispatches
Execute(maxSess) ==
    /\ net.wk = "call"
    /\ find(net.line, Colon) # 0
    /\ Begin(1, ParseLine(net.line), maxSess)

\* execute(): no handler has this name
ExecUnknown ==
    /\ ~supExit
    /\ pc = "exec"
    /\ cmd.name \notin KnownCommands
    /\ Return(Reply(cmd.name, None, Some(<<"Unknown command: ", cmd.name>>)))
    /\ UNCHANGED <<disp, logv, osv, wd, supExit, env, sm>>

\* process_client: response.dump() + "\n" is written to the client.  dump() is
\* called outside any try block, in a detached thread: when it throws,
\* std::terminate ends the supervisor.
Write ==
    /\ ~supExit
    /\ net.wk = "write"
    /\ IF dump_throws(net.resp)
       THEN /\ ProcessEnds
            /\ net' = [net EXCEPT !.wk = "closed", !.resp = NoReply, !.aborted = TRUE]
       ELSE /\ net' = [net EXCEPT !.wk = "recv", !.resp = NoReply, !.wrote = @ + 1]
            /\ UNCHANGED <<disp, logv, osv, wd, thr, reply, lastUp, supExit, env, sm>>

\* ----------------------------------------------------- specifications
Commands ==
    {[name |-> "spin_up", arg |-> n] : n \in Names}
    \cup {[name |-> c, arg |-> <<>>] : c \in {"spin_down", "state", "whoami",
                                              "available_confs"}}

Next ==
    \/ \E c \in Conns, k \in Commands : Begin(c, k, MaxSessions)
    \/ ExecSpinUp
    \/ SpinUpProbe
    \/ DtorJoin
    \/ TermPoll
    \/ TermWait
    \/ TermJoin
    \/ ExecSpinDown
    \/ ExecState
    \/ StDrop
    \/ ExecWhoami
    \/ ExecAvailableConfs
    \/ WdWake
    \/ WdStop
    \/ WdGetline
    \/ WdLock
    \/ WdSignal
    \/ \E p \in Pids : ChildWrite(p, "match", MaxLines)
    \/ \E p \in Pids : ChildExit(p)
    \/ Shutdown

Spec == Init /\ [][Next]_vars


\* The monitoring thread against a child that writes lines of every class: one
\* worker, the commands spin_up:a and state.
WdSessions == 1
WdClock == 0
WdLineClasses == {"match", "errpre", "other"}
WdCommands == {[name |-> "spin_up", arg |-> NameA], [name |-> "state", arg |-> <<>>]}

NextW ==
    \/ \E k \in WdCommands : Begin(1, k, WdSessions)
    \/ SpinUp(WdClock)
    \/ SpinUpProbe
    \/ DtorJoin
    \/ TermPoll
    \/ TermWait
    \/ TermJoin
    \/ ExecState
    \/ StDrop
    \/ WdWake
    \/ WdStop
    \/ WdGetline
    \/ WdLock
    \/ WdSignal
    \/ \E p \in Pids, l \in WdLineClasses : ChildWrite(p, l, WdMaxLines)
    \/ \E p \in Pids : ChildExit(p)

SpecW == Init /\ [][NextW]_vars

\* The handlers with exceptions: one worker, the commands spin_up, spin_down and
\* state, a child that writes nothing.
FSessions == 2
FClock == 0
FCommands ==
    {[name |-> "spin_up", arg |-> NameA], [name |-> "spin_up", arg |-> NameNx],
     [name |-> "spin_down", arg |-> <<>>], [name |-> "state", arg |-> <<>>]}

NextF ==
    \/ \E k \in FCommands : Begin(1, k, FSessions)
    \/ SpinUp(FClock)
    \/ SpinUpThrows(FClock)
    \/ SpinUpProbe
    \/ DtorJoin
    \/ TermPoll
    \/ TermWait
    \/ TermJoin
    \/ TermJoinThrows
    \/ ExecSpinDown
    \/ SpinDownThrows
    \/ ExecState
    \/ StDrop
    \/ WdWake
    \/ WdStop
    \/ \E p \in Pids : ChildExit(p)

SpecF == Init /\ [][NextF]_vars


\* One client and its worker: what the client sends arrives in at most TReads
\* reads, each a whole line, two lines, or a piece of a line.
TSessions == 1
TClock == 0
TReads == 3
Line(w) == <<w, Colon, LF>>
TLines ==
    {Line(w) : w \in KnownCommands \cup {"zz", Utf8Bad}}
    \cup {<<"spin_up", Colon, w, LF>> : w \in {"a", "nx", Utf8Bad}}
    \cup {<<"spin_up", Colon, Blank, Comma, LF>>,
          <<"spin_up", Colon, Comma, Blank, "a", Blank, Comma, "nx", LF>>}
    \cup {<<"zz", LF>>}
TPieces == {Line("whoami"), Line("state"), <<"whoami", Colon>>, <<LF>>}
TData == TLines \cup TPieces \cup {p \o q : p, q \in TPieces}

NextT ==
    \/ Recv(TData, TReads)
    \/ ExecuteNoColon
    \/ Execute(TSessions)
    \/ ExecUnknown
    \/ Write
    \/ SpinUp(TClock)
    \/ SpinUpProbe
    \/ DtorJoin
    \/ TermPoll
    \/ TermWait
    \/ TermJoin
    \/ ExecSpinDown
    \/ ExecState
    \/ StDrop
    \/ ExecWhoami
    \/ ExecAvailableConfs
    \/ WdWake
    \/ WdStop
    \/ \E p \in Pids : ChildExit(p)

SpecT == Init /\ [][NextT]_vars


\* The child between fork() and its setpgid: one worker, the commands spin_up:a,
\* spin_down and state, a child that writes nothing.
GSessions == 2
GClock == 0
GCommands ==
    {[name |-> "spin_up", arg |-> NameA], [name |-> "spin_down", arg |-> <<>>],
     [name |-> "state", arg |-> <<>>]}

NextG ==
    \/ \E k \in GCommands : Begin(1, k, GSessions)
    \/ SpinUpAs(GClock, "forked")
    \/ SpinUpProbe
    \/ DtorJoin
    \/ TermPoll
    \/ TermWait
    \/ TermJoin
    \/ ExecSpinDown
    \/ ExecState
    \/ StDrop
    \/ WdWake
    \/ WdStop
    \/ \E p \in Pids : ChildSetpgid(p)
    \/ \E p \in Pids : ChildExit(p)

SpecG == Init /\ [][NextG]_vars


\* Config names with no, one and two suffixes: one worker, the commands spin_up,
\* spin_down and state, a child that writes nothing.
NSessions == 2
NClock == 0
BareNames == {NameA, NameNx}
NNames == BareNames \cup {b \o Conf : b \in BareNames} \cup {NameA \o Conf \o Conf}
NCommands ==
    {[name |-> "spin_up", arg |-> n] : n \in NNames}
    \cup {[name |-> "spin_down", arg |-> <<>>], [name |-> "state", arg |-> <<>>]}

NextN ==
    \/ \E k \in NCommands : Begin(1, k, NSessions)
    \/ SpinUp(NClock)
    \/ SpinUpProbe
    \/ DtorJoin
    \/ TermPoll
    \/ TermWait
    \/ TermJoin
    \/ ExecSpinDown
    \/ ExecState
    \/ StDrop
    \/ WdWake
    \/ WdStop
    \/ \E p \in Pids : ChildExit(p)

SpecN == Init /\ [][NextN]_vars


\* The daemon started with and without HOME: one worker, the commands spin_up:a,
\* spin_down and state, a child that writes nothing.
HSessions == 2
HClock == 0
Homes == {None, Some("/home/user")}
InitH == \E h \in Homes, u \in Homes : Started([HOME |-> h, USERPROFILE |-> u])

NextH ==
    \/ \E k \in GCommands : Begin(1, k, HSessions)
    \/ SpinUp(HClock)
    \/ SpinUpProbe
    \/ DtorJoin
    \/ TermPoll
    \/ TermWait
    \/ TermJoin
    \/ ExecSpinDown
    \/ ExecState
    \/ StDrop
    \/ WdWake
    \/ WdStop
    \/ \E p \in Pids : ChildExit(p)

SpecH == InitH /\ [][NextH]_vars


\* The StateMachine by itself: threads that call transition_to with any state,
\* each at most MCalls times.
MCalls == 3

NextM ==
    \/ \E t \in Threads, to \in States : SmLock(t, to, MCalls)
    \/ \E t \in Threads : SmLoad(t)
    \/ \E t \in Threads : SmStore(t)

SpecM == Init /\ [][NextM]_vars


\* A WireProxyProcess by itself: one thread that constructs it, spawns and calls
\* terminate() in any order, a child that may write the lines of a network drop.
PSessions == 2
PClock == 0
PMaxLines == 5

NextP ==
    \/ Construct
    \/ Spawn(PSessions, PClock)
    \/ Terminate
    \/ TermPoll
    \/ TermWait
    \/ TermJoin
    \/ WdWake
    \/ WdStop
    \/ WdGetline
    \/ WdLock
    \/ WdSignal
    \/ \E p \in Pids : ChildWrite(p, "match", PMaxLines)
    \/ \E p \in Pids : ChildExit(p)

SpecP == Init /\ [][NextP]_vars


\* The monitoring thread as a thread the system keeps scheduling: one worker, the
\* commands spin_up:a, spin_down and state, a child that may write the lines of a
\* network drop.  A thread that can take a step is not left waiting for ever.
LSessions == 1
LClock == 0
LMaxLines == 5

NextL ==
    \/ \E k \in GCommands : Begin(1, k, LSessions)
    \/ SpinUp(LClock)
    \/ SpinUpProbe
    \/ DtorJoin
    \/ TermPoll
    \/ TermWait
    \/ TermJoin
    \/ ExecSpinDown
    \/ ExecState
    \/ StDrop
    \/ WdWake
    \/ WdStop
    \/ WdGetline
    \/ WdLock
    \/ WdSignal
    \/ \E p \in Pids : ChildWrite(p, "match", LMaxLines)
    \/ \E p \in Pids : ChildExit(p)

SpecL ==
    /\ Init /\ [][NextL]_vars
    /\ WF_vars(WdWake) /\ WF_vars(WdStop) /\ WF_vars(WdGetline)
    /\ WF_vars(WdLock) /\ WF_vars(WdSignal)

\* The workers, the monitoring thread and the child as threads and a process the
\* system keeps scheduling: two workers, every command, a child that may write the
\* lines of a network drop.  The thread that holds mutex_ and the monitoring
\* thread are not left waiting for ever when they can take a step, and a child
\* that was sent SIGKILL ends.
DSessions == 1
DClock == 0
DMaxLines == 5
DCommands ==
    GCommands \cup {[name |-> c, arg |-> <<>>] : c \in {"whoami", "available_confs"}}

\* the end of a child that was sent SIGKILL
KilledExit == \E p \in Pids : procs[p] = "killed" /\ ChildExit(p)

NextD ==
    \/ \E c \in Conns, k \in DCommands : Begin(c, k, DSessions)
    \/ SpinUp(DClock)
    \/ SpinUpProbe
    \/ DtorJoin
    \/ TermPoll
    \/ TermWait
    \/ TermJoin
    \/ ExecSpinDown
    \/ ExecState
    \/ StDrop
    \/ ExecWhoami
    \/ ExecAvailableConfs
    \/ WdWake
    \/ WdStop
    \/ WdGetline
    \/ WdLock
    \/ WdSignal
    \/ \E p \in Pids : ChildWrite(p, "match", DMaxLines)
    \/ \E p \in Pids : ChildExit(p)

SpecD ==
    /\ Init /\ [][NextD]_vars
    /\ WF_vars(SpinUp(DClock)) /\ WF_vars(SpinUpProbe) /\ WF_vars(DtorJoin)
    /\ WF_vars(TermPoll) /\ WF_vars(TermWait) /\ WF_vars(TermJoin)
    /\ WF_vars(ExecSpinDown) /\ WF_vars(ExecState) /\ WF_vars(StDrop)
    /\ WF_vars(ExecWhoami) /\ WF_vars(ExecAvailableConfs)
    /\ WF_vars(WdWake) /\ WF_vars(WdStop) /\ WF_vars(WdGetline)
    /\ WF_vars(WdLock) /\ WF_vars(WdSignal)
    /\ WF_vars(KilledExit)

\* The monitoring thread against a child whose lines are of all four classes: one
\* spin_up:a, no further command.
ESessions == 1
EClock == 0
EMaxLines == 5
ECommands == {[name |-> "spin_up", arg |-> NameA]}

NextE ==
    \/ \E k \in ECommands : Begin(1, k, ESessions)
    \/ SpinUp(EClock)
    \/ SpinUpProbe
    \/ WdWake
    \/ WdGetline
    \/ WdLock
    \/ WdSignal
    \/ \E p \in Pids, l \in LineClasses : ChildWrite(p, l, EMaxLines)

SpecE == Init /\ [][NextE]_vars

\* The handlers with exceptions, and a child that writes to its log.
XMaxLines == 2

NextX ==
    \/ NextF
    \/ \E p \in Pids : ChildWrite(p, "match", XMaxLines)

SpecX == Init /\ [][NextX]_vars

\* A LogManager driven by itself: create_log, finalize and get_log_handle in any
\* order, for the configuration a.conf under both its names, within two seconds.
SClock == 1
SNames == {NameA, NameA \o Conf}
SMethods == {"Graceful termination", "Force killed", "Process died unexpectedly"}

NextS ==
    \/ LogCreate(SClock, SNames)
    \/ \E m \in SMethods : LogFinalize(m)
    \/ LogHandle

SpecS == Init /\ [][NextS]_vars

\* ================================================================ claims
\* the children that run
Live(ps) == {p \in Pids : ps[p] \in LiveSt}

\* a step in which execute() returns its reply
Replied == pc # "idle" /\ pc' = "idle" /\ ~supExit'

\* the rows of the transition table
TableRows ==
    {<<"IDLE", "STARTING">>, <<"STARTING", "RUNNING">>, <<"STARTING", "IDLE">>,
     <<"RUNNING", "STOPPING">>, <<"RUNNING", "IDLE">>, <<"STOPPING", "IDLE">>}

\* a resetting line: no match and no ERROR:
Resets(l) == ~IsMatch(l) /\ ~HasERROR(l)

\* seq holds five matching lines with no resetting line between them
FiveRun(seq) ==
    \E i \in 1..Len(seq), j \in 1..Len(seq) :
        /\ i <= j
        /\ \A k \in i..j : ~Resets(seq[k])
        /\ Cardinality({k \in i..j : IsMatch(seq[k])}) >= 5

\* the lines the monitoring thread has read
WdRead == SubSeq(lines, wd.start + 1, wd.pos)

NetworkDrop == "Network drop detected - auto-terminated"
DiedUnexpectedly == "Process died unexpectedly"
NotRunningReply == Reply("spin_down", None, Some(<<"WireProxy is not running">>))

\* C1: single child.  At most one child runs at any time.  A spin_up replies
\* "running" only in a step from Starting to Running, and then its child is the
\* only one that runs; Starting is entered from Idle only; and Running or Stopping
\* is left for Idle only in the step in which a spin_down replies "stopped" or a
\* state command that found the child dead replies.  So between two "running"
\* replies lies a successful spin_down or a cleanup by state.
C1_SingleChild ==
    [][ /\ Cardinality(Live(procs')) <= 1
        /\ (Replied /\ reply'.CMD = "spin_up" /\ reply'.result # None)
              => /\ state = "STARTING" /\ state' = "RUNNING"
                 /\ Live(procs') = {reply'.result[1].pid}
                 /\ process'.pid = reply'.result[1].pid
        /\ (state # "STARTING" /\ state' = "STARTING") => state = "IDLE"
        /\ (state = "RUNNING" /\ state' # "RUNNING" /\ ~supExit')
              => state' \in {"STOPPING", "IDLE"}
        /\ (state = "STOPPING" /\ state' # "STOPPING" /\ ~supExit') => state' = "IDLE"
        /\ (state \in {"RUNNING", "STOPPING"} /\ state' = "IDLE" /\ ~supExit')
              => /\ Replied
                 /\ \/ reply'.CMD = "spin_down" /\ reply'.result # None
                    \/ /\ reply'.CMD = "state" /\ ~reply'.result[1].running
                       /\ local.cont = "state"
      ]_vars

\* C1: a second spin_up has replied "running"
C1_Witness == reply.CMD = "spin_up" /\ reply.result # None /\ reply.result[1].pid > 1

\* C2: transition_to returns true and stores the target exactly for the six rows
\* of the table; for every other pair it returns false and keeps the state.  Every
\* change of the lifecycle state of the running supervisor is a row of the table.
C2_TransitionTable ==
    [][ /\ \A from \in States, to \in States :
              LET r == transition_to(from, to)
              IN IF <<from, to>> \in TableRows
                 THEN r.ok /\ r.st = to
                 ELSE ~r.ok /\ r.st = from
        /\ (state' # state /\ ~supExit') => <<state, state'>> \in TableRows
      ]_vars

\* C2: the state machine has gone Idle, Starting, Running, Stopping, Idle
C2_Witness == state = "IDLE" /\ reply.CMD = "spin_down" /\ reply.result # None

\* C3: no orphan on shutdown: in no state has the supervisor exited while a child
\* of it still runs.
C3_NoOrphanOnShutdown == supExit => Live(procs) = {}

\* C4: every log opened by create_log has its footer when its handle is closed,
\* and no log is open once its session is dropped.
C4_LogsFinalized ==
    /\ \A p \in Paths : files[p] # "cut"
    /\ (pc = "idle" /\ ~process.exists) => log_file = None

\* C5 as stated: after a spin_up reply "running" with pid P the next state reply,
\* with no spin_down between, has running true and pid P.
C5_Original ==
    [][ (lastUp # 0 /\ Replied /\ reply'.CMD = "state")
           => reply'.result[1].running /\ reply'.result[1].pid = Some(lastUp)
      ]_vars

\* C5: after a spin_up reply "running" with pid P the next state reply, with no
\* spin_down between, has running true and pid P if the child runs when the state
\* command probes it (it then replies in the same step); else it has running false
\* and pid null.
C5_StateAfterSpinUp ==
    [][ (lastUp # 0 /\ Replied /\ reply'.CMD = "state")
           => IF pc = "exec" /\ procs[lastUp] \in LiveSt
              THEN reply'.result[1].running /\ reply'.result[1].pid = Some(lastUp)
              ELSE ~reply'.result[1].running /\ reply'.result[1].pid = None
      ]_vars

\* C5: the state reply next after a spin_up reply "running" names its pid
C5_Witness ==
    /\ lastUp # 0
    /\ reply.CMD = "state"
    /\ reply.result[1].running
    /\ reply.result[1].pid = Some(lastUp)

\* C6: when a spin_down replies "stopped" the state is Idle, the session is
\* dropped and no child is alive or a zombie; a state reply has running true only
\* in state Running, and Running is entered only in the step in which a spin_up
\* replies "running".
C6_AfterSpinDown ==
    [][ /\ (reply'.CMD = "spin_down" /\ reply'.result # None)
              => /\ state' = "IDLE"
                 /\ ~process'.exists
                 /\ \A p \in Pids : procs'[p] \in {"none", "reaped"}
        /\ (reply'.CMD = "state" /\ reply'.result[1].running)
              => state' = "RUNNING" /\ reply'.result[1].pid = Some(process'.pid)
        /\ (state # "RUNNING" /\ state' = "RUNNING")
              => Replied /\ reply'.CMD = "spin_up" /\ reply'.result # None
      ]_vars

\* C6: a spin_down has replied "stopped" after it had to kill the child
C6_Witness ==
    /\ reply.CMD = "spin_down"
    /\ reply.result # None
    /\ footer = Some("Force killed")
    /\ \E p \in Pids : procs[p] = "reaped"

\* C7: lazy death detection.  A state command that finds the state Running and the
\* child dead does not reply before the cleanup; the cleanup writes the footer
\* with "Network drop detected - auto-terminated" if network_drop_detected_ is set
\* when has_network_drop() reads it and with "Process died unexpectedly" if not,
\* and closes the log; the reply has running false, config and pid null; the
\* session is dropped and the state goes from Running to Idle.
C7_LazyDeathDetection ==
    [][ /\ (/\ pc = "exec" /\ cmd.name = "state" /\ pc' # pc /\ ~supExit'
            /\ state = "RUNNING" /\ process.exists /\ procs[process.pid] \notin LiveSt)
              => pc' = "st_drop" /\ reply' = NoReply
        /\ (pc = "st_drop" /\ pc' # pc /\ ~supExit')
              => /\ log_file # None
                 /\ footer' = Some(IF process.drop THEN NetworkDrop ELSE DiedUnexpectedly)
                 /\ files'[log_file[1]] = "final"
                 /\ log_file' = None
        /\ (Replied /\ local.cont = "state")
              => /\ reply' = Reply("state",
                                   Some([running |-> FALSE, config |-> None, pid |-> None,
                                         log_file |-> current_log_path]), None)
                 /\ state = "RUNNING" /\ state' = "IDLE"
                 /\ ~process'.exists
                 /\ current_config' = <<>>
      ]_vars

\* C7: a state command has found the child dead, the flag not set
C7_Witness ==
    /\ reply.CMD = "state"
    /\ ~reply.result[1].running
    /\ state = "IDLE"
    /\ footer = Some(DiedUnexpectedly)

\* C8 as stated: five matching lines with no resetting line between them, written
\* at any time of the session, trip the watchdog: once the monitoring thread has
\* read to the end of the log with the flag not set, the log holds no such five.
C8_Original ==
    (process.exists /\ ~process.drop /\ wd.pc = "tail" /\ wd.pos = Len(lines))
        => ~FiveRun(lines)

\* C8: the watchdog trips on what it reads.  The monitoring thread reads the lines
\* written after it began to tail (500 ms after the spawn, from the end of the log
\* as it then was).  Once these hold five matching lines with no resetting line
\* between them it stops reading, sets network_drop_detected_ and sends SIGTERM
\* to the child's group.  A state command that then finds the child dead writes
\* the footer "Network drop detected - auto-terminated" if the flag is set when
\* it reads it, and replies running false.
C8_WatchdogTrip ==
    [][ /\ wd'.pc = "tail" => ~FiveRun(WdRead')
        /\ (process'.exists /\ FiveRun(WdRead')) => (process'.drop \/ wd'.pc = "lock")
        /\ (wd.pc = "lock" /\ wd'.pc # "lock") => wd'.pc = "trip" /\ process'.drop
        /\ (wd.pc = "trip" /\ wd'.pc # "trip")
              => /\ wd'.pc = "done"
                 /\ \E sg \in sent' : sg[1] = process.pid /\ sg[2] = "SIGTERM"
                 /\ procs'[process.pid] # "alive"
        /\ (pc = "st_drop" /\ pc' # pc /\ process.drop)
              => footer' = Some(NetworkDrop) /\ log_file' = None
        /\ (Replied /\ local.cont = "state") => ~reply'.result[1].running
      ]_vars

\* C8: a state command has found the child dead after the watchdog tripped
C8_Witness ==
    /\ reply.CMD = "state"
    /\ ~reply.result[1].running
    /\ footer = Some(NetworkDrop)
    /\ \E sg \in sent : sg[2] = "SIGTERM"

C10_SpinDownWhenIdle ==
    [][ (pc = "exec" /\ cmd.name = "spin_down" /\ state = "IDLE" /\ pc' # pc /\ ~supExit')
           => /\ reply' = NotRunningReply
              /\ pc' = "idle"
              /\ UNCHANGED <<disp, logv, osv, wd>>
      ]_vars

\* C10: a spin_down in state Idle has replied
C10_Witness == reply = NotRunningReply /\ state = "IDLE" /\ nextPid > 1

\* a spin_up that is turned away before it tries: no argument, or not Idle
Rejected(r) ==
    r.error[1][1] \in {"Not enough args: spin_up requires config name",
                       "WireProxy is already running with config: ",
                       "WireProxy is already running"}

\* the log of the current path has its footer with this method and is closed
Finalized(lf, clp, fs, ft, method) ==
    lf = None /\ clp # None /\ fs[clp[1]] = "final" /\ ft = Some(method)

\* C11: when a spin_up that tried (configuration not found, log creation failure,
\* spawn failure, child dead at the probe, exception in the handler) returns its
\* error reply, the state is Idle, no session exists and no child runs; the log
\* this attempt opened has its footer and is closed.
C11_FailingSpinUp ==
    [][ (Replied /\ reply'.CMD = "spin_up" /\ reply'.error # None /\ ~Rejected(reply'))
           => /\ state' = "IDLE"
              /\ ~process'.exists
              /\ Live(procs') = {}
              /\ wd'.pc = "none"
              /\ reply'.error[1][1] = "Failed to spawn WireProxy process"
                    => Finalized(log_file', current_log_path', files', footer',
                                 "Spawn failed")
              /\ reply'.error[1][1] = "WireProxy failed to start. Check log: "
                    => Finalized(log_file', current_log_path', files', footer',
                                 "Process died during startup")
              /\ (reply'.error[1][1] = "Exception during spin_up: " /\ pc # "exec")
                    => Finalized(log_file', current_log_path', files', footer',
                                 "Error during startup")
              /\ reply'.error[1][1] = "Exception during spin_up: Failed to create log file: "
                    => log_file' = None
      ]_vars

\* C11: a spin_up has failed by an exception after the child was forked
C11_Witness ==
    /\ reply.CMD = "spin_up"
    /\ reply.error = Some(<<"Exception during spin_up: ", "what">>)
    /\ footer = Some("Error during startup")
    /\ state = "IDLE"
    /\ \E p \in Pids : procs[p] = "reaped"

Schema(r) ==
    /\ DOMAIN r = {"CMD", "result", "error"}
    /\ (r.result = None) # (r.error = None)

\* C13: every reply, the worker's framing error included, has exactly the keys
\* CMD, result and error, and exactly one of result and error is null.
C13_ReplySchema ==
    /\ reply # NoReply => Schema(reply)
    /\ net.wk = "write" => Schema(net.resp)

\* the worker is about to write its own framing error, after handlers have replied
C13_Witness ==
    /\ net.wk = "write"
    /\ net.resp.error = Some(<<"Newline not found">>)
    /\ reply.result # None

\* C14: no input ends the supervisor: an unknown command, a line without a colon
\* or bytes that are not valid UTF-8 get an error reply, and the worker and the
\* supervisor keep running.
C14_NoInputKillsSupervisor == ~net.aborted

\* C15: on one connection every newline-terminated request gets its reply, also
\* when several requests arrive in one read: when the worker is back in recv(),
\* it has written at least as many replies as it received newlines.
C15_OneReplyPerRequest == (~supExit /\ net.wk = "recv") => net.wrote >= net.nls

\* C16: a line that arrives in two reads is answered once, and the fragment
\* without its newline is not answered: when the worker is back in recv(), it has
\* written no more replies than it received newlines.
C16_LineAccumulation == (~supExit /\ net.wk = "recv") => net.wrote <= net.nls

\* C17: at most one command executes at a time: from the moment a worker has
\* mutex_ until its reply, through the sleep and the polling, the command under
\* execution and the worker that holds the lock stay the same.
C17_CommandSerialization ==
    [][(pc # "idle" /\ ~supExit') => (Replied \/ (holder' = holder /\ cmd' = cmd))]_vars

\* the command of connection 2 is in terminate()'s polling while the lock is held
C17_Witness == pc = "term_poll" /\ holder = 2 /\ cmd.name = "spin_down" /\ local.i > 0

\* C18: state with the state RUNNING and the child alive replies running with
\* the session's pid and config and changes nothing, so that two state commands in
\* a row give the same pid and config; whoami changes nothing and always gives the
\* same reply.
C18_StateAndWhoamiReadOnly ==
    [][/\ (/\ ~supExit' /\ pc = "exec" /\ pc' # pc /\ cmd.name = "state"
           /\ state = "RUNNING" /\ process.exists /\ procs[process.pid] \in LiveSt)
          => /\ pc' = "idle"
             /\ reply' = Reply("state", Some([running |-> TRUE,
                                              config |-> Some(current_config),
                                              pid |-> Some(process.pid),
                                              log_file |-> current_log_path]), None)
             /\ UNCHANGED <<disp, logv, osv, wd>>
       /\ (~supExit' /\ pc = "exec" /\ pc' # pc /\ cmd.name = "whoami")
          => /\ pc' = "idle"
             /\ reply' = whoami_reply
             /\ UNCHANGED <<disp, logv, osv, wd>>]_vars

\* state has replied running while the child, already signalled, still runs
C18_Witness ==
    /\ pc = "idle" /\ ~supExit
    /\ reply.CMD = "state" /\ reply.result[1].running
    /\ state = "RUNNING" /\ process.exists /\ procs[process.pid] = "termed"

C20_ProcessGroup ==
    \A p \in Pids : (process.exists /\ process.pid = p /\ procs[p] \in LiveSt)
                        => procs[p] \in InGroup

\* handle_spin_up, handle_spin_down: process_ holds a WireProxyProcess
SessionExists == process.exists

\* C21: a Session exists iff the lifecycle state is STARTING, RUNNING or STOPPING;
\* when the state is IDLE no Session exists.
C21_SessionIffActive == SessionExists <=> state \in {"STARTING", "RUNNING", "STOPPING"}

\* after a first session, a spin_up whose fork failed has replied: IDLE, no Session
C21_Witness ==
    /\ pc = "idle"
    /\ reply.error = Some(<<"Failed to spawn WireProxy process">>)
    /\ nextPid > 1
    /\ state = "IDLE" /\ ~SessionExists

\* the step is a handler's reply to the worker of the connection
Answered == net.wk = "call" /\ net'.wk = "write" /\ ~supExit'

\* C22: a line without a colon is answered CMD "unknown" with the parse error, a
\* line with a name that is no command is answered the unknown-command error with
\* the name in CMD, a spin_up without a non-empty argument is answered the
\* missing-argument error; in the three cases the state and the session are as
\* they were.
C22_CommandLineErrors ==
    [][Answered =>
         LET colon_pos == find(net.line, Colon)
             name == SubSeq(net.line, 1, colon_pos - 1)
             blank == \A i \in (colon_pos + 1)..Len(net.line) :
                          net.line[i] \in {Blank, Comma, LF}
         IN /\ colon_pos = 0
                  => /\ net'.resp = Reply("unknown", None,
                                          Some(<<"Parsing error: colon not found">>))
                     /\ UNCHANGED <<disp, logv, osv, wd>>
            /\ (colon_pos > 1 /\ name[1] \notin KnownCommands)
                  => /\ net'.resp = Reply(name[1], None,
                                          Some(<<"Unknown command: ", name[1]>>))
                     /\ UNCHANGED <<disp, logv, osv, wd>>
            /\ (colon_pos > 1 /\ name[1] = "spin_up" /\ blank)
                  => /\ net'.resp = Reply("spin_up", None,
                               Some(<<"Not enough args: spin_up requires config name">>))
                     /\ UNCHANGED <<disp, logv, osv, wd>>]_vars

\* a spin_up whose only fields are blank was refused while a session runs
C22_Witness ==
    /\ net.wk = "write"
    /\ net.reads = 2 /\ net.nls = 2
    /\ net.resp.error = Some(<<"Not enough args: spin_up requires config name">>)
    /\ state = "RUNNING" /\ process.exists

\* a spin_up of the name n from IDLE answers, or goes into its sleep, with the
\* file f as its configuration
ResolvesTo(n, f) ==
    (/\ pc \in {"exec", "su_sleep"} /\ pc' # pc /\ ~supExit'
     /\ cmd.name = "spin_up" /\ cmd.arg = n /\ state \in {"IDLE", "STARTING"})
    => /\ normalize_config_name(normalize_config_name(n)) = normalize_config_name(n)
       /\ pc' = "su_sleep" => local'.norm = f /\ f \in ConfigFiles
       /\ (pc' = "idle" /\ reply'.result # None)
            => reply'.result[1].config = f /\ current_config' = f
       /\ (pc' = "idle" /\ reply'.error # None
            /\ reply'.error[1][1] = "Configuration not found: ")
            => reply'.error[1][2] = f /\ f \notin ConfigFiles

\* C23 as stated, n being any name: spin_up with n and spin_up with n + '.conf'
\* resolve to the same file, the one n + '.conf' names.
C23_Original ==
    [][\A n \in NNames : ResolvesTo(n, n \o Conf) /\ ResolvesTo(n \o Conf, n \o Conf)]_vars

\* C23: normalize is idempotent, and for a name n that does not itself end in
\* '.conf', spin_up with n and spin_up with n + '.conf' resolve to the same
\* configuration file n + '.conf' and report it as the config in their replies.
C23_Normalization ==
    [][\A n \in BareNames : ResolvesTo(n, n \o Conf) /\ ResolvesTo(n \o Conf, n \o Conf)]_vars

\* spin_up:a.conf is in its sleep with the file a.conf, which spin_up:a uses too
C23_Witness ==
    /\ pc = "su_sleep"
    /\ cmd.arg = NameA \o Conf
    /\ local.norm = NameA \o Conf
    /\ local.norm = normalize_config_name(NameA)

\* C24: when HOME does not resolve, the directory in which the session logs are
\* created is under the system temporary directory.
C24_LogsUnderTemp ==
    (env.HOME = None /\ current_log_path # None)
        => LogFile(env, current_log_path)[1] = TempDir

\* C25: transition_to is atomic under concurrent callers: when a call returns,
\* the state it validated against is the state it replaces; a call that returns
\* true has stored its target over a state from which the table has that row, a
\* call that returns false has stored nothing.  So of two calls to STARTING that
\* race from IDLE, one returns true.
C25_AtomicTransition ==
    [][\A t \in Threads :
         (sm.th[t].pc = "loaded" /\ sm'.th[t].pc = "out")
         => /\ sm.th[t].cur = state
            /\ sm'.th[t].ok => <<state, state'>> \in TableRows /\ state' = sm.th[t].to
            /\ ~sm'.th[t].ok => state' = state /\ <<state, sm.th[t].to>> \notin TableRows]_vars

\* two calls to STARTING were made from IDLE at once: thread 1 has returned true,
\* thread 2, which had to wait for the lock, has read STARTING
C25_Witness ==
    /\ sm.th[1].pc = "out" /\ sm.th[1].calls = 1 /\ sm.th[1].to = "STARTING" /\ sm.th[1].ok
    /\ sm.th[2].pc = "loaded" /\ sm.th[2].calls = 1 /\ sm.th[2].to = "STARTING"
    /\ sm.th[2].cur = "STARTING"

\* the signals this step has sent
NewSignals == IF sent \subseteq sent' THEN sent' \ sent ELSE sent'

\* C26: terminate() on a child that runs sends SIGTERM to the group of its pid,
\* then polls up to 50 times; it sends SIGKILL to the group only after the last
\* poll, when no poll has reaped the child, and then waits until the child is
\* reaped.  The method is "Graceful termination" when a poll reaped the child and
\* "Force killed" otherwise; when terminate() returns the child is reaped and the
\* monitoring thread joined.
C26_TerminationEscalation ==
    [][/\ (pc # "term_poll" /\ pc' = "term_poll" /\ procs[process.pid] \in LiveSt)
          => /\ <<process.pid, "SIGTERM", FALSE>> \in sent'
             /\ NewSignals \subseteq {<<process.pid, "SIGTERM", FALSE>>}
             /\ procs'[process.pid] = "termed"
             /\ local'.i = 0
       /\ (pc = "term_poll" /\ pc' = "term_poll" /\ local' # local)
          => /\ procs[process.pid] \in LiveSt
             /\ local'.i = local.i + 1 /\ local'.i < PollLimit
             /\ UNCHANGED <<sent, procs>>
       /\ (pc = "term_poll" /\ pc' = "term_join")
          => /\ procs[process.pid] = "zombie" /\ procs'[process.pid] = "reaped"
             /\ local.i < PollLimit
             /\ local'.method = "Graceful termination"
             /\ UNCHANGED sent
       /\ (pc = "term_poll" /\ pc' = "term_wait")
          => /\ procs[process.pid] # "zombie"
             /\ procs[process.pid] \in LiveSt
                  => local.i = PollLimit - 1 /\ procs'[process.pid] = "killed"
             /\ \E x \in sent' : x[1] = process.pid /\ x[2] = "SIGKILL"
       /\ (\E x \in NewSignals : x[2] = "SIGKILL") => (pc = "term_poll" /\ pc' = "term_wait")
       /\ (pc = "term_wait" /\ pc' = "term_join")
          => /\ procs[process.pid] \notin LiveSt
             /\ procs'[process.pid] \notin LiveSt \cup {"zombie"}
             /\ local'.method = "Force killed"
       /\ (pc = "term_join" /\ pc' # "term_join" /\ ~supExit')
          => /\ Joined
             /\ procs[process.pid] \notin LiveSt \cup {"zombie"}
             /\ wd'.pc = "none" /\ ~process'.exists
             /\ local.cont = "spin_down"
                  => /\ local.method \in {"Graceful termination", "Force killed"}
                     /\ footer' = Some(local.method)]_vars

\* fifty polls of a spin_down found the child running: SIGKILL is sent and
\* terminate() waits
C26_Witness ==
    /\ pc = "term_wait" /\ local.cont = "spin_down" /\ local.i = PollLimit
    /\ procs[process.pid] = "killed"
    /\ <<process.pid, "SIGKILL", FALSE>> \in sent

\* a terminate() on the object has returned and nothing was spawned since
Completed == pc = "idle" /\ process.exists /\ local.method # ""

\* the object was constructed and never spawned
NeverSpawned == pc = "idle" /\ process.exists /\ nextPid = 1

\* C27: terminate() after a terminate() that has completed, and terminate() on
\* an object that never spawned, returns "Not running", sends no signal and waits
\* for nothing.
C27_TerminateIdempotent ==
    [][(Completed \/ NeverSpawned)
       => /\ pc' # "term_poll"
          /\ local'.method \notin {"", local.method}
               => /\ local'.method = "Not running"
                  /\ pc' = "idle"
                  /\ UNCHANGED <<process, procs, sent, wd>>]_vars

\* the second terminate() on a spawned object has returned "Not running"
C27_Witness ==
    /\ pc = "idle" /\ process.exists /\ process.terminated
    /\ nextPid = 2 /\ procs[1] = "reaped"
    /\ local.method = "Not running"

\* C28: once is_alive() has reaped the child, the supervisor sends no SIGTERM or
\* SIGKILL to the group of that pid and does not run the termination polling
\* again, also when it drops the WireProxyProcess in the cleanup of state and in
\* the died-during-startup path of spin_up.
C28_NoDoubleTermination ==
    [][(pc \in {"exec", "su_sleep", "st_drop", "dtor_join"} /\ process.exists
        /\ process.pid # NoPid /\ procs[process.pid] = "reaped" /\ ~supExit')
       => /\ pc' \notin {"term_poll", "term_wait"}
          /\ pc' # pc => \A x \in NewSignals : x[1] # process.pid]_vars

\* C29: the monitoring thread sends SIGTERM to the group -pid only while the
\* child with that pid has not been reaped by the supervisor.
C29_WatchdogSignalGuard ==
    [][(wd.pc = "trip" /\ wd'.pc = "done" /\ ~supExit'
        /\ \E x \in sent' : x[1] = process.pid /\ x[2] = "SIGTERM")
       => procs[process.pid] # "reaped"]_vars

\* C30: once stop_monitoring_ is raised the monitoring thread ends, from its
\* startup sleep, from reading lines and from its idle polling, so that the join
\* of cleanup() and of the destructor returns; every step that drops the
\* WireProxyProcess has joined the thread, and no thread is left without its
\* object.
C30_WatchdogCancellation ==
    /\ [][(process.exists /\ ~process'.exists) => (Joined /\ wd'.pc = "none")]_vars
    /\ [](~process.exists => wd.pc = "none")
    /\ (process.stop /\ ~Joined) ~> Joined
    /\ (pc \in {"dtor_join", "term_join"} /\ ~Joined) ~> Joined

\* the destructor waits in join() while the thread still has lines to read
C30_Witness ==
    /\ pc = "dtor_join" /\ process.stop
    /\ wd.pc = "tail" /\ wd.pos < Len(lines)

\* C31: teardown order.  In every step in which the log of a session is finalized
\* and its handle released, the stop flag of the monitoring thread has been raised
\* and the thread has ended; the thread never tails a log whose handle is closed.
C31_TeardownOrder ==
    [][(process.exists /\ log_file # None /\ log_file' = None /\ ~supExit')
          => (process.stop /\ Joined /\ wd'.pc \notin {"sleep", "tail", "lock", "trip"})]_vars

\* C32: order of the steps of spin_up.  The monitoring thread is started only in
\* the step after the 500 ms sleep that finds the child alive and takes the state
\* from Starting to Running; no monitoring thread exists while the state is
\* Starting, and a spin_up whose child is dead at the probe never starts one.
C32_WatchdogArmedAfterProbe ==
    [][ /\ state' = "STARTING" => wd'.pc = "none"
        /\ (wd.pc = "none" /\ wd'.pc # "none")
              => (pc = "su_sleep" /\ state = "STARTING" /\ state' = "RUNNING")
      ]_vars

\* C33: classification of a line that matches neither pattern.  The line the
\* monitoring thread reads sets the counter back to zero when it does not start
\* with 'ERROR:', also when it holds 'ERROR:' further on; a line that starts with
\* 'ERROR:' leaves the counter as it is.
C33_LineClassification ==
    [][(wd.pc = "tail" /\ wd'.pos = wd.pos + 1)
          => LET line == lines[wd.pos + 1] IN
             /\ line \in {"other", "errmid"} => wd'.cnt = 0
             /\ line = "errpre" => wd'.cnt = wd.cnt
      ]_vars

\* C34: get_current_log_path() gives the path of the open log while a log is open,
\* and the empty path whenever no log is open: before the first create, after
\* finalize has closed the log, after a create that failed.
C34_CurrentPath ==
    ~supExit =>
        IF is_log_open(log_file)
        THEN get_current_log_path(current_log_path) = log_file
        ELSE get_current_log_path(current_log_path) = None

\* C35: finalize is idempotent.  A finalize with no log open writes nothing and
\* changes nothing; a finalize with a log open writes its footer and closes it;
\* no log file ever holds two footers; get_log_handle() throws exactly when no log
\* is open, so from a finalize on it throws until a create_log that succeeds.
C35_FinalizeIdempotent ==
    [][ /\ (cmd'.name = "finalize" /\ log_file = None)
              => UNCHANGED <<log_file, current_log_path, files, footer>>
        /\ (cmd'.name = "finalize" /\ log_file # None)
              => /\ files[log_file[1]] = "open"
                 /\ files' = [files EXCEPT ![log_file[1]] = "final"]
                 /\ footer' = Some(cmd'.arg[1])
        /\ cmd'.name = "finalize" => log_file' = None
        /\ \A p \in Paths : files'[p] # "twice"
        /\ cmd'.name = "get_log_handle"
              => /\ log_file = None
                    => reply'.error = Some(<<"No log file is currently open">>)
                 /\ log_file # None => reply'.error = None /\ reply'.result = log_file
        /\ (log_file = None /\ log_file' # None)
              => cmd'.name = "create_log" /\ reply'.error = None
      ]_vars

\* C35: the last call was a finalize that found no log open, after an earlier
\* finalize had written its footer
C35_Witness ==
    /\ cmd = [name |-> "finalize", arg |-> <<"Force killed">>]
    /\ footer = Some("Graceful termination")
    /\ log_file = None
    /\ \E p \in Paths : files[p] = "final"

\* C36: order of the records of a log.  The footer is written only when the child
\* that writes to the log has ended and been reaped, on every path that finalizes,
\* the catch block of spin_up too; and the child writes only into a log that has
\* its header and no footer yet, so no output of the child follows the footer.
C36_LogRecordOrder ==
    [][ /\ (~supExit' /\ \E p \in Paths : files'[p] = "final" /\ files[p] # "final")
              => \A c \in Pids : procs'[c] \in {"none", "reaped"}
        /\ (lines' # lines /\ lines' # <<>>)
              => (current_log_path # None /\ files[current_log_path[1]] = "open")
      ]_vars

C38_LogPathUnique ==
    [][\A p \in Paths : (~supExit' /\ files'[p] = "open" /\ files[p] # "open")
                            => files[p] = "absent"]_vars

\* C39: the footer after a trip.  When the monitoring thread has set
\* network_drop_detected_ for the session, the command that finalizes its log, the
\* cleanup of a state command or a spin_down, writes the Shutdown Method
\* "Network drop detected - auto-terminated".
C39_FooterAfterTrip ==
    [][(cmd.name \in {"state", "spin_down"} /\ process.exists /\ process.drop
        /\ log_file # None /\ log_file' = None /\ ~supExit')
          => footer' = Some(NetworkDrop)]_vars

\* C40: no deadlock.  Every command that has taken mutex_ returns its reply and
\* releases mutex_, whatever the monitoring thread and the child do meanwhile: the
\* waits for monitor_mutex_, for the end of the child and for the end of the
\* monitoring thread all come to an end.
C40_DeadlockFreedom ==
    (~mutex_free) ~> (mutex_free /\ holder = 0 /\ reply # NoReply)

\* C40: a state command waits for monitor_mutex_, which the monitoring thread
\* holds while it signals the child
C40_Witness ==
    /\ pc = "st_drop"
    /\ wd.pc = "trip"

====
